---- MODULE Spec2Model ----
(***************************************************************************)
(* Commercial-agriculture GEP pipeline (estimate_commerical_agriculture.py *)
(* and gep_agr.py): the per-country backward as-of join of crop values     *)
(* with decade rental rates, and the two group-and-sum aggregations.       *)
(*                                                                         *)
(* Tables (pandas DataFrames) are sequences of records, in row order.      *)
(* A cell that pandas holds as NaN or pd.NA is the value NA below; a       *)
(* number v is Num(v).  Rental rates are fractions in the data; here a     *)
(* rate is an integer number of hundredths, so gep * rental_rate is in     *)
(* hundredths of the gep unit.                                             *)
(***************************************************************************)
EXTENDS Integers, Sequences, FiniteSets, TLC

VARIABLES
    module,                         \* the file whose pipeline runs
    values_file,                    \* Value_of_Production_E_All_Data2.csv
    coefs_file,                     \* CWON2024_crop_coef.csv
    pc,                             \* position in the calling sequence of run / calculate
    df_crop_value,                  \* long value table (output of read_crop_values)
    df_crop_coefs,                  \* coefficient lookup table (output of read_crop_coefs)
    df_gep_by_country_year_crop,    \* crop-level table (output of merge_crop_with_coefs)
    df_gep_by_year_country,         \* country-year table (output of group_crops)
    df_gep_by_year,                 \* global table (output of group_countries)
    outputs                         \* the files written so far, in order

inputs == <<module, values_file, coefs_file>>

vars == <<module, values_file, coefs_file, pc, df_crop_value, df_crop_coefs,
          df_gep_by_country_year_crop, df_gep_by_year_country, df_gep_by_year, outputs>>

-----------------------------------------------------------------------------
(* Bounds of the model *)

MaxRows == 2

\* the last year column of the value file (2022 in the code)
LastYear == 1962

-----------------------------------------------------------------------------
(* Cells *)

NoFile == [status |-> "none", rows |-> <<>>]

NA == [na |-> TRUE, v |-> 0]
Num(x) == [na |-> FALSE, v |-> x]

\* float * float, NaN / pd.NA propagating
Mul(a, b) == IF a.na \/ b.na THEN NA ELSE Num(a.v * b.v)

RECURSIVE SumSkipNa(_)
\* Series.sum() / groupby sum with skipna=True, min_count=0: absent cells are
\* skipped and an empty or all-absent group sums to 0
SumSkipNa(cells) ==
    IF cells = <<>> THEN 0
    ELSE (IF Head(cells).na THEN 0 ELSE Head(cells).v) + SumSkipNa(Tail(cells))

-----------------------------------------------------------------------------
(* Sequences *)

SeqsUpTo(S, n) == UNION {[1..k -> S] : k \in 0..n}

Max(S) == CHOOSE x \in S : \A y \in S : y <= x

RECURSIVE SortedSeqOfSet(_)
\* the elements of a finite set of integers, ascending
SortedSeqOfSet(S) ==
    IF S = {} THEN <<>>
    ELSE LET m == CHOOSE x \in S : \A y \in S : x <= y
         IN  <<m>> \o SortedSeqOfSet(S \ {m})

Map(s, F(_)) == [i \in DOMAIN s |-> F(s[i])]

Range(s) == {s[i] : i \in DOMAIN s}

Count(s, P(_)) == Cardinality({i \in DOMAIN s : P(s[i])})

IsSortedBy(s, Lt(_, _)) == \A i, j \in DOMAIN s : i < j => ~Lt(s[j], s[i])

\* the order of tuples of integers of one length
LexLt(a, b) == \E i \in DOMAIN a : a[i] < b[i] /\ \A j \in 1..(i - 1) : a[j] = b[j]

\* the rows of s in ascending order of their keys (keys[i] is the tuple of
\* sort columns of s[i]), rows of equal keys in the order they have in s:
\* sort_values on several columns is a stable lexsort
StableSort(s, keys) ==
    LET n == Len(s)
        rank(i) == 1 + Cardinality({j \in 1..n :
                        LexLt(keys[j], keys[i]) \/ (keys[j] = keys[i] /\ j < i)})
    IN  [k \in 1..n |-> s[CHOOSE i \in 1..n : rank(i) = k]]

YearLt(a, b) == a.year < b.year

RemoveAt(s, i) == SubSeq(s, 1, i - 1) \o SubSeq(s, i + 1, Len(s))

RECURSIVE sort_values_year(_)
\* sort_values("year") (one column, kind="quicksort", not stable): every
\* ordering of the rows that is ascending in year is a possible result
sort_values_year(s) ==
    IF s = <<>> THEN {<<>>}
    ELSE LET first == {i \in DOMAIN s : \A j \in DOMAIN s : s[i].year <= s[j].year}
         IN  UNION {{<<s[i]>> \o t : t \in sort_values_year(RemoveAt(s, i))} : i \in first}
AreaYearLt(a, b) ==
    \/ a.area_code < b.area_code
    \/ a.area_code = b.area_code /\ a.year < b.year

-----------------------------------------------------------------------------
(* merge_crop_with_coefs *)

\* the lookup without the filter on the country code
lookup_any(coefs, code) == coefs

\* df_crop_coefs[df_crop_coefs["FAO"] == code]
lookup_sub(coefs, code) == SelectSeq(coefs, LAMBDA e : e.FAO = code)

\* df_group of df_crop_value.groupby("area_code", sort=True)
df_group(df, code) == SelectSeq(df, LAMBDA r : r.area_code = code)

\* merge_asof with allow_exact_matches=False: only earlier entries match
asof_backward_strict(right, y) ==
    LET idx == {i \in DOMAIN right : right[i].year < y}
    IN  IF idx = {} THEN NA ELSE right[Max(idx)].rental_rate

\* the rate pd.merge_asof(direction="backward") attaches to a left row of
\* year y: that of the last row of the (year-sorted) right table whose year
\* is <= y, absent when there is none
asof_backward(right, y) ==
    LET idx == {i \in DOMAIN right : right[i].year <= y}
    IN  IF idx = {} THEN NA ELSE right[Max(idx)].rental_rate

with_rate(r, rate) ==
    [area_code |-> r.area_code, country |-> r.country, crop_code |-> r.crop_code,
     crop |-> r.crop, year |-> r.year, gep |-> r.gep, rental_rate |-> rate]

\* an as-of join that keeps only the left rows with a match
merge_asof_matched(left, right) ==
    SelectSeq(Map(left, LAMBDA r : with_rate(r, asof_backward(right, r.year))),
              LAMBDA r : r.rental_rate # NA)

merge_asof(left, right) == Map(left, LAMBDA r : with_rate(r, asof_backward(right, r.year)))

\* the uncovered branch: df_group["rental_rate"] = pd.NA
fill_na(group) == Map(group, LAMBDA r : with_rate(r, NA))

\* the possible values of one element of merged_parts
merged_part(df, coefs, code) ==
    IF lookup_sub(coefs, code) = <<>>
    THEN {fill_na(df_group(df, code))}
    ELSE {merge_asof(l, r) : l \in sort_values_year(df_group(df, code)),
                             r \in sort_values_year(lookup_sub(coefs, code))}

RECURSIVE carry_parts(_, _, _, _)
\* the loop with a lookup that survives an iteration: a country without
\* entries is joined with the lookup of the country processed before it
carry_parts(df, coefs, codes, prev) ==
    IF codes = <<>> THEN {<<>>}
    ELSE LET own == lookup_sub(coefs, Head(codes))
             used == IF own = <<>> THEN prev ELSE own
             parts == IF used = <<>>
                      THEN {fill_na(df_group(df, Head(codes)))}
                      ELSE {merge_asof(l, r) :
                               l \in sort_values_year(df_group(df, Head(codes))),
                               r \in sort_values_year(used)}
         IN  {p \o rest : p \in parts, rest \in carry_parts(df, coefs, Tail(codes), used)}

concat_parts_carry(df, coefs, codes) == carry_parts(df, coefs, codes, <<>>)

RECURSIVE concat_parts(_, _, _)
\* pd.concat(merged_parts, ignore_index=True), the parts in the order of the loop
concat_parts(df, coefs, codes) ==
    IF codes = <<>> THEN {<<>>}
    ELSE {p \o rest : p \in merged_part(df, coefs, Head(codes)),
                      rest \in concat_parts(df, coefs, Tail(codes))}

group_codes(df) == SortedSeqOfSet({df[i].area_code : i \in DOMAIN df})

\* the product with an absent rate taken as 0
apply_rate_fill0(r) ==
    [r EXCEPT !.gep = IF r.rental_rate.na THEN Num(0) ELSE Mul(r.gep, r.rental_rate)]

\* df_crop_value['gep'] = df_crop_value['gep'] * df_crop_value['rental_rate']
apply_rate(r) == [r EXCEPT !.gep = Mul(r.gep, r.rental_rate)]

\* the table left in the order it has
no_sort(t) == t

\* sort_values(by=["area_code", "year"])
sort_area_year(t) == StableSort(t, [i \in DOMAIN t |-> <<t[i].area_code, t[i].year>>])

\* what the body of merge_crop_with_coefs yields when the loop visits the
\* country codes in the order codes
merge_results_in(df, coefs, codes) ==
    {sort_area_year(Map(c, apply_rate)) : c \in concat_parts(df, coefs, codes)}

\* the possible return values of merge_crop_with_coefs on a non-empty table:
\* groupby(sort=True) visits the codes in ascending order
merge_results(df, coefs) == merge_results_in(df, coefs, group_codes(df))

-----------------------------------------------------------------------------
(* group_crops, group_countries *)

\* the display names of the model in the order Python compares strings
CountryOrder ==
    <<"A", "B", "C", "Czechoslovakia", "Low Income Food Deficit Countries", "Turkey",
      "Turkiye", "World">>
CountryRank(name) == CHOOSE i \in DOMAIN CountryOrder : CountryOrder[i] = name

\* the keys of df.groupby(["area_code", "country", "year"])
crop_group_keys(df) ==
    {[area_code |-> df[i].area_code, country |-> df[i].country, year |-> df[i].year] :
        i \in DOMAIN df}

crop_group_row(df, k) ==
    [area_code |-> k.area_code, country |-> k.country, year |-> k.year,
     gep |-> Num(SumSkipNa(Map(SelectSeq(df, LAMBDA r : /\ r.area_code = k.area_code
                                                       /\ r.country = k.country
                                                       /\ r.year = k.year),
                               LAMBDA r : r.gep)))]

RECURSIVE SetToSeq(_)
SetToSeq(S) ==
    IF S = {} THEN <<>>
    ELSE LET m == CHOOSE x \in S : TRUE IN <<m>> \o SetToSeq(S \ {m})

\* the group keys in the order groupby(sort=True) yields them: ascending in
\* (area_code, country, year)
sorted_group_keys(K) ==
    LET ks == SetToSeq(K)
    IN  StableSort(ks, [i \in DOMAIN ks |->
                           <<ks[i].area_code, CountryRank(ks[i].country), ks[i].year>>])

\* the table group_crops returns.  Every group sum is a number (held in an
\* object column when the uncovered branch ran), so the closing
\* pd.to_numeric(errors="coerce") changes the dtype of the column and no value
group_crops(df) ==
    sort_area_year(Map(sorted_group_keys(crop_group_keys(df)),
                       LAMBDA k : crop_group_row(df, k)))

\* agg "first" in place of "sum"
year_group_row_first(df, y) ==
    [year |-> y, total_gep |-> SelectSeq(df, LAMBDA r : r.year = y)[1].gep]

\* one row of df.groupby("year", as_index=False).agg(gep=("gep", "sum")), renamed
year_group_row(df, y) ==
    [year |-> y,
     total_gep |-> Num(SumSkipNa(Map(SelectSeq(df, LAMBDA r : r.year = y),
                                     LAMBDA r : r.gep)))]

\* sort_values("year") of a table with one row per year
sort_year(t) == StableSort(t, [i \in DOMAIN t |-> <<t[i].year>>])

group_countries(df) ==
    sort_year(Map(SortedSeqOfSet({df[i].year : i \in DOMAIN df}),
                  LAMBDA y : year_group_row(df, y)))

-----------------------------------------------------------------------------
(* read_crop_values *)

ESTIMATE == "estimate_commerical_agriculture"
GEP_AGR == "gep_agr"

\* the year columns Y1961 ... of the value file (range(1961, 2023) in the code)
FirstYear == 1961
YearCols == FirstYear..LastYear

\* the unit and element code a module keeps
UnitOf(m) == IF m = ESTIMATE THEN "1000 Int$" ELSE "1000 USD"
ElementCodeOf(m) == IF m = ESTIMATE THEN 152 ELSE 57

aggregate_drop_list ==
    {"Vegetables and Fruit Primary", "Agriculture", "Cereals, primary", "Crops",
     "Vegetables Primary", "Fibre Crops Primary", "Food", "Fruit Primary", "Livestock",
     "Milk, Total", "Meat indigenous, total"}

\* gep_agr_defaults.DEFAULT_CROP_ITEMS, the allow-list calculate passes as items
DEFAULT_CROP_ITEMS == {"Wheat", "Rice"}

\* the value of the list literal countries_to_drop of each module; in gep_agr
\* two adjacent string literals have no comma between them and are one string
countries_to_drop(m) ==
    {"USSR", "Yugoslav SFR", "World", "Africa", "Eastern Africa", "Middle Africa",
     "Northern Africa", "Southern Africa", "Western Africa", "Americas",
     "Northern America", "Central America", "Caribbean", "South America", "Asia",
     "Central Asia", "Eastern Asia", "Southern Asia", "South-eastern Asia",
     "Western Asia", "Europe", "Eastern Europe", "Northern Europe", "Southern Europe",
     "Western Europe", "Oceania", "Australia and New Zealand", "Melanesia",
     "Micronesia", "Polynesia", "European Union (27)", "Least Developed Countries",
     "Land Locked Developing Countries", "Small Island Developing States",
     "Net Food Importing Developing Countries"}
    \cup (IF m = ESTIMATE
          THEN {"Low Income Food Deficit Countries"}
          ELSE {"CzechoslovakiaLow Income Food Deficit Countries",
                "China, Hong Kong SAR", "China, mainland", "China, Macao SAR",
                "China, Taiwan Province of", "Belgium-Luxembourg"})

\* the names written in the list literal of gep_agr, one per string literal
countries_written_gep_agr ==
    (countries_to_drop(GEP_AGR) \ {"CzechoslovakiaLow Income Food Deficit Countries"})
    \cup {"Czechoslovakia", "Low Income Food Deficit Countries"}

\* (Unit == ...) & (Element Code == ...)
keep_unit(m, rows) ==
    SelectSeq(rows, LAMBDA r : r.Unit = UnitOf(m) /\ r.Element_Code = ElementCodeOf(m))

\* estimate: ~crop.isin(aggregate_drop_list); gep_agr: crop.isin(items)
keep_crops(m, rows) ==
    IF m = ESTIMATE
    THEN SelectSeq(rows, LAMBDA r : r.crop \notin aggregate_drop_list)
    ELSE SelectSeq(rows, LAMBDA r : r.crop \in DEFAULT_CROP_ITEMS)

\* the country filter left out
keep_all_countries(m, rows) == rows

\* ~country.isin(countries_to_drop)
drop_countries(m, rows) == SelectSeq(rows, LAMBDA r : r.country \notin countries_to_drop(m))

RECURSIVE melt_years(_, _)
\* pd.melt: for each year column in turn, one row per row of the wide table
melt_years(rows, years) ==
    IF years = <<>> THEN <<>>
    ELSE Map(rows, LAMBDA r : [area_code |-> r.area_code, country |-> r.country,
                               crop_code |-> r.crop_code, crop |-> r.crop,
                               year |-> Head(years), gep |-> r.Y[Head(years)]])
         \o melt_years(rows, Tail(years))

\* pd.to_numeric(area_code, errors="coerce").astype(int): an unparseable code
\* is coerced to NaN, on which astype(int) raises
area_code_casts(long) == \A i \in DOMAIN long : ~long[i].area_code.na

to_int(r) == [r EXCEPT !.area_code = r.area_code.v]

\* the display name of the raw file kept
keep_name(r) == r

\* df.loc[df["area_code"] == 223, "country"] = "Turkey"
rename_turkey(r) == IF r.area_code = 223 THEN [r EXCEPT !.country = "Turkey"] ELSE r

\* the table before the casts
cleaned_long(m, rows) ==
    melt_years(drop_countries(m, keep_crops(m, keep_unit(m, rows))),
               SortedSeqOfSet(YearCols))

\* whether read_crop_values raises on the file
read_crop_values_raises(m, file) ==
    \/ file.status # "ok"
    \/ ~area_code_casts(cleaned_long(m, file.rows))

\* the table read_crop_values returns
read_crop_values(m, file) ==
    Map(cleaned_long(m, file.rows), LAMBDA r : rename_turkey(to_int(r)))

-----------------------------------------------------------------------------
(* read_crop_coefs *)

Digits == <<"0", "1", "2", "3", "4", "5", "6", "7", "8", "9">>
IsDigit(c) == \E d \in DOMAIN Digits : Digits[d] = c
DigitVal(c) == (CHOOSE d \in DOMAIN Digits : Digits[d] = c) - 1

\* the pattern without its anchor: the first four digits in a row, anywhere
extract_decade_unanchored(label) ==
    LET at == {k \in 1..(Len(label) - 3) : \A i \in 0..3 : IsDigit(label[k + i])}
    IN  IF at = {} THEN NA
        ELSE LET k == CHOOSE x \in at : \A y \in at : x <= y
             IN  Num(1000 * DigitVal(label[k]) + 100 * DigitVal(label[k + 1])
                     + 10 * DigitVal(label[k + 2]) + DigitVal(label[k + 3]))

\* Decade.str.extract(r"^(\d{4})").astype(float): the four leading digits of
\* the label as a number, absent when the label does not begin with four digits
extract_decade_start(label) ==
    IF Len(label) >= 4 /\ \A i \in 1..4 : IsDigit(label[i])
    THEN Num(1000 * DigitVal(label[1]) + 100 * DigitVal(label[2])
             + 10 * DigitVal(label[3]) + DigitVal(label[4]))
    ELSE NA

RECURSIVE melt_decades(_, _)
\* df.melt(id_vars=[Order, FAO, Country/territory]): for each other column
\* in turn, one row per row of the file
melt_decades(rows, labels) ==
    IF labels = <<>> THEN <<>>
    ELSE Map(rows, LAMBDA r : [FAO |-> r.FAO, Decade |-> Head(labels),
                               rental_rate |-> r.rates[Head(labels)]])
         \o melt_decades(rows, Tail(labels))

\* the table read_crop_coefs returns
read_crop_coefs(file) ==
    LET melted == melt_decades(file.rows, file.columns)
        started == Map(melted, LAMBDA r : [FAO |-> r.FAO,
                                           Decade_start |-> extract_decade_start(r.Decade),
                                           rental_rate |-> r.rental_rate])
        dated == SelectSeq(started, LAMBDA r : ~r.Decade_start.na)
        coded == SelectSeq(dated, LAMBDA r : ~r.FAO.na)
    IN  Map(coded, LAMBDA r : [FAO |-> r.FAO.v, year |-> r.Decade_start.v,
                               rental_rate |-> r.rental_rate])

read_crop_coefs_raises(file) == file.status # "ok"

-----------------------------------------------------------------------------
(* Inputs of the join *)

Areas == {[area_code |-> 1, country |-> "A"], [area_code |-> 1, country |-> "B"],
          [area_code |-> 2, country |-> "C"]}

ValueYears == {1961, 1963}

\* a crop and the raw gep of a record: wheat with and without a value, rice
CropCells ==
    {[crop_code |-> 15, crop |-> "Wheat", gep |-> Num(2)],
     [crop_code |-> 15, crop |-> "Wheat", gep |-> NA],
     [crop_code |-> 27, crop |-> "Rice", gep |-> Num(3)]}

ValueRows ==
    {[area_code |-> a.area_code, country |-> a.country, crop_code |-> c.crop_code,
      crop |-> c.crop, year |-> y, gep |-> c.gep] :
        a \in Areas, c \in CropCells, y \in ValueYears}

CoefRows ==
    {[FAO |-> 1, year |-> 1962, rental_rate |-> Num(10)],
     [FAO |-> 1, year |-> 1963, rental_rate |-> Num(30)],
     [FAO |-> 2, year |-> 1962, rental_rate |-> Num(20)]}

-----------------------------------------------------------------------------
(* The calling sequence of run (estimate_commerical_agriculture.py) and    *)
(* calculate (gep_agr.py) from the loaded tables on                        *)

\* the coefficient tables: the rows of CoefRows, each at most once, in any order
CoefTables ==
    {t \in SeqsUpTo(CoefRows, Cardinality(CoefRows)) :
        \A i, j \in DOMAIN t : i # j => t[i] # t[j]}

\* merge_crop_with_coefs, group_crops and group_countries called on tables
\* the caller built (the functions of gep_agr are a library's)
InitJoin ==
    /\ module = GEP_AGR
    /\ values_file = NoFile
    /\ coefs_file = NoFile
    /\ outputs = <<>>
    /\ pc = "loaded"
    /\ df_crop_value \in SeqsUpTo(ValueRows, MaxRows)
    /\ df_crop_coefs \in CoefTables
    /\ df_gep_by_country_year_crop = <<>>
    /\ df_gep_by_year_country = <<>>
    /\ df_gep_by_year = <<>>

\* merge_crop_with_coefs returns
MergeCropWithCoefs ==
    /\ pc = "loaded"
    /\ df_crop_value # <<>>
    /\ \E out \in merge_results(df_crop_value, df_crop_coefs) :
           df_gep_by_country_year_crop' = out
    /\ pc' = "merged"
    /\ UNCHANGED <<inputs, outputs, df_crop_value, df_crop_coefs, df_gep_by_year_country,
                   df_gep_by_year>>

\* merge_crop_with_coefs on an empty table: merged_parts is empty and
\* pd.concat raises ValueError, which neither run nor calculate catches
MergeCropWithCoefsRaises ==
    /\ pc = "loaded"
    /\ df_crop_value = <<>>
    /\ pc' = "crashed"
    /\ UNCHANGED <<inputs, outputs, df_crop_value, df_crop_coefs, df_gep_by_country_year_crop,
                   df_gep_by_year_country, df_gep_by_year>>

GroupCrops ==
    /\ pc = "merged"
    /\ df_gep_by_year_country' = group_crops(df_gep_by_country_year_crop)
    /\ pc' = "grouped"
    /\ UNCHANGED <<inputs, outputs, df_crop_value, df_crop_coefs, df_gep_by_country_year_crop,
                   df_gep_by_year>>

GroupCountries ==
    /\ pc = "grouped"
    /\ df_gep_by_year' = group_countries(df_gep_by_year_country)
    /\ pc' = "aggregated"
    /\ UNCHANGED <<inputs, outputs, df_crop_value, df_crop_coefs, df_gep_by_country_year_crop,
                   df_gep_by_year_country>>

NextJoin ==
    \/ MergeCropWithCoefs
    \/ MergeCropWithCoefsRaises
    \/ GroupCrops
    \/ GroupCountries

SpecJoin == InitJoin /\ [][NextJoin]_vars

-----------------------------------------------------------------------------
(* Input files of a run *)

RECURSIVE SubSeqs(_)
\* the tables made of some of the rows of s, in the order of s
SubSeqs(s) ==
    IF s = <<>> THEN {<<>>}
    ELSE LET rest == SubSeqs(Tail(s))
         IN  rest \cup {<<Head(s)>> \o t : t \in rest}

RawRow(unit, element, area, country, item, first, later) ==
    [Unit |-> unit, Element_Code |-> element, area_code |-> area, country |-> country,
     crop_code |-> item.crop_code, crop |-> item.crop,
     Y |-> [y \in YearCols |-> IF y = FirstYear THEN first ELSE later]]

Wheat == [crop_code |-> 15, crop |-> "Wheat"]
Rice == [crop_code |-> 27, crop |-> "Rice"]
Crops == [crop_code |-> 2041, crop |-> "Crops"]

\* rows a value file of module m may hold: countries and crops the module
\* keeps, an aggregate region, an aggregate crop, the two names gep_agr
\* writes without a comma, a row whose area code does not parse, and a row of
\* the unit and element the module does not read
ValueFileRows(m) ==
    <<RawRow(UnitOf(m), ElementCodeOf(m), Num(1), "A", Wheat, Num(2), Num(2)),
      RawRow(UnitOf(m), ElementCodeOf(m), Num(223), "Turkiye", Wheat, NA, Num(2)),
      RawRow(UnitOf(m), ElementCodeOf(m), Num(223), "Turkey", Rice, Num(2), NA),
      RawRow(UnitOf(m), ElementCodeOf(m), Num(5000), "World", Wheat, Num(2), Num(2)),
      RawRow(UnitOf(m), ElementCodeOf(m), Num(1), "A", Crops, Num(2), Num(2)),
      RawRow(UnitOf(m), ElementCodeOf(m), Num(51), "Czechoslovakia", Wheat, Num(2), Num(2)),
      RawRow(UnitOf(m), ElementCodeOf(m), Num(5815), "Low Income Food Deficit Countries",
             Wheat, Num(2), Num(2)),
      RawRow(UnitOf(m), ElementCodeOf(m), NA, "B", Wheat, Num(2), Num(2)),
      RawRow(UnitOf(IF m = ESTIMATE THEN GEP_AGR ELSE ESTIMATE),
             ElementCodeOf(IF m = ESTIMATE THEN GEP_AGR ELSE ESTIMATE),
             Num(1), "A", Rice, Num(2), Num(2))>>

ValueFiles(m) ==
    {[status |-> "ok", rows |-> t] : t \in SubSeqs(ValueFileRows(m))}
    \cup {[status |-> st, rows |-> <<>>] : st \in {"unreadable", "missing_column"}}

\* the columns of the coefficient file after Order, FAO and Country/territory
Label1960 == <<"1", "9", "6", "0", "-", "1", "9", "6", "1">>
Label1962 == <<"1", "9", "6", "2", "-", "1", "9", "7", "1">>
LabelAverage == <<"A", "v", "e", "r", "a", "g", "e">>
LabelY1970 == <<"Y", "1", "9", "7", "0">>
DecadeColumns == <<Label1960, Label1962, LabelAverage, LabelY1970>>

CoefRow(fao, r1960, r1962, avg) ==
    [FAO |-> fao,
     rates |-> [l \in Range(DecadeColumns) |->
                   IF l = Label1960 THEN r1960 ELSE IF l = Label1962 THEN r1962 ELSE avg]]

CoefFileRows ==
    <<CoefRow(Num(1), Num(10), Num(30), Num(20)),
      CoefRow(Num(223), NA, Num(20), Num(20)),
      CoefRow(NA, Num(10), NA, Num(10))>>

CoefFiles ==
    {[status |-> "ok", columns |-> DecadeColumns, rows |-> t] : t \in SubSeqs(CoefFileRows)}
    \cup {[status |-> st, columns |-> <<>>, rows |-> <<>>] :
             st \in {"unreadable", "missing_column"}}

-----------------------------------------------------------------------------
(* run (estimate_commerical_agriculture.py) and calculate (gep_agr.py) *)

Init ==
    /\ module \in {ESTIMATE, GEP_AGR}
    /\ values_file \in ValueFiles(module)
    /\ coefs_file \in CoefFiles
    /\ outputs = <<>>
    /\ pc = "start"
    /\ df_crop_value = <<>>
    /\ df_crop_coefs = <<>>
    /\ df_gep_by_country_year_crop = <<>>
    /\ df_gep_by_year_country = <<>>
    /\ df_gep_by_year = <<>>

tables == <<df_gep_by_country_year_crop, df_gep_by_year_country, df_gep_by_year>>

\* the exception of a loader passed over, the run going on
load_ignored(m) == "loaded"

\* run catches the exception of a loader, logs and returns; calculate lets it
\* propagate to its caller
load_failed(m) == IF m = ESTIMATE THEN "aborted" ELSE "raised"

ReadCropValues ==
    /\ pc = "start"
    /\ ~read_crop_values_raises(module, values_file)
    /\ df_crop_value' = read_crop_values(module, values_file)
    /\ pc' = "values_read"
    /\ UNCHANGED <<inputs, outputs, df_crop_coefs, tables>>

ReadCropValuesRaises ==
    /\ pc = "start"
    /\ read_crop_values_raises(module, values_file)
    /\ pc' = load_failed(module)
    /\ UNCHANGED <<inputs, outputs, df_crop_value, df_crop_coefs, tables>>

ReadCropCoefs ==
    /\ pc = "values_read"
    /\ ~read_crop_coefs_raises(coefs_file)
    /\ df_crop_coefs' = read_crop_coefs(coefs_file)
    /\ pc' = "loaded"
    /\ UNCHANGED <<inputs, outputs, df_crop_value, tables>>

ReadCropCoefsRaises ==
    /\ pc = "values_read"
    /\ read_crop_coefs_raises(coefs_file)
    /\ pc' = load_failed(module)
    /\ UNCHANGED <<inputs, outputs, df_crop_value, df_crop_coefs, tables>>

\* what step 3 of run writes, in order: three csv files, the global plot,
\* the per-year plots and the per-country plots
OutputFiles ==
    <<"gep-year-countries-crops.csv", "gep-years-countries.csv", "gep-years.csv",
      "gep-years.png", "years", "countries">>

\* one write of step 3 of run
WriteOutput ==
    /\ module = ESTIMATE
    /\ pc = "aggregated"
    /\ Len(outputs) < Len(OutputFiles)
    /\ outputs' = Append(outputs, OutputFiles[Len(outputs) + 1])
    /\ pc' = IF Len(outputs) + 1 = Len(OutputFiles) THEN "done" ELSE "aggregated"
    /\ UNCHANGED <<inputs, df_crop_value, df_crop_coefs, tables>>

\* calculate returns the three tables
Return ==
    /\ module = GEP_AGR
    /\ pc = "aggregated"
    /\ pc' = "returned"
    /\ UNCHANGED <<inputs, outputs, df_crop_value, df_crop_coefs, tables>>

Next ==
    \/ ReadCropValues
    \/ ReadCropValuesRaises
    \/ ReadCropCoefs
    \/ ReadCropCoefsRaises
    \/ MergeCropWithCoefs
    \/ MergeCropWithCoefsRaises
    \/ GroupCrops
    \/ GroupCountries
    \/ WriteOutput
    \/ Return

Spec == Init /\ [][Next]_vars

-----------------------------------------------------------------------------
(* Properties of the join and the aggregation *)

Aggregated == pc \in {"aggregated", "done", "returned"}
Grouped == pc = "grouped" \/ Aggregated
Merged == pc = "merged" \/ Grouped

RowKey(r) ==
    [area_code |-> r.area_code, country |-> r.country, crop_code |-> r.crop_code,
     crop |-> r.crop, year |-> r.year]

CoefEntries(code) == {e \in Range(df_crop_coefs) : e.FAO = code}

\* C1: every record of a country that has coefficient entries carries the rate
\* of the entry with the largest decade start <= the record's year (a year
\* equal to a decade start selects that entry), and an absent rate when its
\* year precedes every decade start of the country.
C1_AsOfRate ==
    Merged =>
        \A i \in DOMAIN df_gep_by_country_year_crop :
            LET r == df_gep_by_country_year_crop[i]
                le == {e \in CoefEntries(r.area_code) : e.year <= r.year}
            IN  CoefEntries(r.area_code) # {} =>
                    IF le = {} THEN r.rental_rate = NA
                    ELSE \E e \in le : /\ \A f \in le : f.year <= e.year
                                       /\ r.rental_rate = e.rental_rate

\* a country with the decades 1962 and 1963: its record of 1963 (a decade
\* start) has the rate of 1963, its record of 1961 has none
C1_Witness ==
    /\ Merged
    /\ Cardinality(CoefEntries(1)) = 2
    /\ \E i, j \in DOMAIN df_gep_by_country_year_crop :
           LET a == df_gep_by_country_year_crop[i]
               b == df_gep_by_country_year_crop[j]
           IN  /\ a.area_code = 1 /\ a.year = 1963 /\ a.rental_rate = Num(30)
               /\ b.area_code = 1 /\ b.year = 1961 /\ b.rental_rate = NA

\* C2: the crop-level table holds each input record exactly once (as many
\* records of each area_code, country, crop_code, crop, year as the input)
\* and no other record.
C2_NoRowDroppedOrDuplicated ==
    Merged =>
        /\ Len(df_gep_by_country_year_crop) = Len(df_crop_value)
        /\ \A k \in {RowKey(df_crop_value[i]) : i \in DOMAIN df_crop_value}
                \cup {RowKey(df_gep_by_country_year_crop[i]) :
                         i \in DOMAIN df_gep_by_country_year_crop} :
               Count(df_gep_by_country_year_crop, LAMBDA r : RowKey(r) = k)
                   = Count(df_crop_value, LAMBDA r : RowKey(r) = k)

\* a record of an uncovered country and a record of a covered country whose
\* year precedes its earliest decade, both kept
C2_Witness ==
    /\ Merged
    /\ Len(df_crop_value) = 2
    /\ CoefEntries(1) # {} /\ CoefEntries(2) = {}
    /\ \E i, j \in DOMAIN df_gep_by_country_year_crop :
           /\ df_gep_by_country_year_crop[i].area_code = 1
           /\ df_gep_by_country_year_crop[i].year = 1961
           /\ df_gep_by_country_year_crop[j].area_code = 2

\* C3: every record of a country without coefficient entries has an absent
\* rate, and all the country's records are in the crop-level table.
C3_UncoveredCountry ==
    Merged =>
        \A code \in {df_crop_value[i].area_code : i \in DOMAIN df_crop_value} :
            CoefEntries(code) = {} =>
                /\ \A i \in DOMAIN df_gep_by_country_year_crop :
                       df_gep_by_country_year_crop[i].area_code = code
                           => df_gep_by_country_year_crop[i].rental_rate = NA
                /\ \A i \in DOMAIN df_crop_value :
                       df_crop_value[i].area_code = code =>
                           Count(df_gep_by_country_year_crop,
                                 LAMBDA r : RowKey(r) = RowKey(df_crop_value[i]))
                             = Count(df_crop_value,
                                     LAMBDA r : RowKey(r) = RowKey(df_crop_value[i]))

\* country 2 has no entry while country 1 has entries that would apply in
\* 1963; both records of country 2 are there, without rate
C3_Witness ==
    /\ Merged
    /\ CoefEntries(2) = {} /\ CoefEntries(1) # {}
    /\ Len(df_gep_by_country_year_crop) = 2
    /\ \A i \in DOMAIN df_gep_by_country_year_crop :
           /\ df_gep_by_country_year_crop[i].area_code = 2
           /\ df_gep_by_country_year_crop[i].year = 1963
           /\ df_gep_by_country_year_crop[i].rental_rate = NA

\* C4: the gep of a crop-level record is its raw gep times its rate when a rate
\* resolved and absent when none did: among the records of one key and rate,
\* each gep value occurs as often as it is the product for an input record.
C4_AdjustedGep ==
    Merged =>
        \A i \in DOMAIN df_gep_by_country_year_crop :
            LET o == df_gep_by_country_year_crop[i]
            IN  /\ o.rental_rate = NA => o.gep = NA
                /\ \A j \in DOMAIN df_gep_by_country_year_crop :
                       RowKey(df_gep_by_country_year_crop[j]) = RowKey(o)
                           => df_gep_by_country_year_crop[j].rental_rate = o.rental_rate
                /\ Count(df_gep_by_country_year_crop,
                         LAMBDA r : RowKey(r) = RowKey(o) /\ r.gep = o.gep)
                     = Count(df_crop_value,
                             LAMBDA r : RowKey(r) = RowKey(o)
                                            /\ Mul(r.gep, o.rental_rate) = o.gep)

\* raw gep 2: with rate 10 the gep is 20, without rate it is absent
C4_Witness ==
    /\ Merged
    /\ \A i \in DOMAIN df_crop_value : df_crop_value[i].gep = Num(2)
    /\ \E i, j \in DOMAIN df_gep_by_country_year_crop :
           LET a == df_gep_by_country_year_crop[i]
               b == df_gep_by_country_year_crop[j]
           IN  /\ a.rental_rate = Num(10) /\ a.gep = Num(20)
               /\ b.rental_rate = NA /\ b.gep = NA

\* C5: the aggregation does not report the number 0 for a group whose
\* adjusted values are all absent: neither a country-year gep nor a total_gep.
C5_NoSilentZeroFill ==
    /\ Grouped =>
           \A i \in DOMAIN df_gep_by_year_country :
               LET g == df_gep_by_year_country[i]
               IN  (\A j \in DOMAIN df_gep_by_country_year_crop :
                        LET r == df_gep_by_country_year_crop[j]
                        IN  (r.area_code = g.area_code /\ r.country = g.country
                                /\ r.year = g.year) => r.gep = NA)
                       => g.gep # Num(0)
    /\ Aggregated =>
           \A i \in DOMAIN df_gep_by_year :
               (\A j \in DOMAIN df_gep_by_country_year_crop :
                    df_gep_by_country_year_crop[j].year = df_gep_by_year[i].year
                        => df_gep_by_country_year_crop[j].gep = NA)
                   => df_gep_by_year[i].total_gep # Num(0)

AreaYears(t) == {[area_code |-> t[i].area_code, year |-> t[i].year] : i \in DOMAIN t}

\* C6: the country-year table has exactly one row for each (area_code, year)
\* of the crop-level table, whose gep is the sum of the crop-level gep of
\* that (area_code, year), whatever display names the rows carry.
C6_OneRowPerAreaYear ==
    Grouped =>
        /\ AreaYears(df_gep_by_year_country) = AreaYears(df_gep_by_country_year_crop)
        /\ \A k \in AreaYears(df_gep_by_country_year_crop) :
               /\ Count(df_gep_by_year_country,
                        LAMBDA g : g.area_code = k.area_code /\ g.year = k.year) = 1
               /\ \A i \in DOMAIN df_gep_by_year_country :
                      LET g == df_gep_by_year_country[i]
                      IN  (g.area_code = k.area_code /\ g.year = k.year) =>
                              g.gep = Num(SumSkipNa(Map(
                                  SelectSeq(df_gep_by_country_year_crop,
                                            LAMBDA r : /\ r.area_code = k.area_code
                                                       /\ r.year = k.year),
                                  LAMBDA r : r.gep)))

\* C7: the global table has exactly one row for each year of the
\* country-year table, whose total_gep is the sum of gep over the
\* country-year rows of that year.
C7_GlobalTotals ==
    Aggregated =>
        /\ {df_gep_by_year[i].year : i \in DOMAIN df_gep_by_year}
             = {df_gep_by_year_country[i].year : i \in DOMAIN df_gep_by_year_country}
        /\ \A i \in DOMAIN df_gep_by_year :
               /\ Count(df_gep_by_year, LAMBDA g : g.year = df_gep_by_year[i].year) = 1
               /\ df_gep_by_year[i].total_gep =
                      Num(SumSkipNa(Map(
                          SelectSeq(df_gep_by_year_country,
                                    LAMBDA r : r.year = df_gep_by_year[i].year),
                          LAMBDA r : r.gep)))

\* 1963: country 1 contributes 2 * 10 = 20 and country 2 contributes
\* 2 * 20 = 40, the total is 60
C7_Witness ==
    /\ Aggregated
    /\ \E i, j \in DOMAIN df_gep_by_year_country :
           /\ df_gep_by_year_country[i].year = 1963
           /\ df_gep_by_year_country[j].year = 1963
           /\ df_gep_by_year_country[i].gep = Num(20)
           /\ df_gep_by_year_country[j].gep = Num(40)
    /\ \E i \in DOMAIN df_gep_by_year :
           df_gep_by_year[i] = [year |-> 1963, total_gep |-> Num(60)]

\* C8: the crop-level and the country-year table are ascending in
\* (area_code, year), the global table is ascending in year.
C8_OutputsSorted ==
    /\ Merged => IsSortedBy(df_gep_by_country_year_crop, AreaYearLt)
    /\ Grouped => IsSortedBy(df_gep_by_year_country, AreaYearLt)
    /\ Aggregated => IsSortedBy(df_gep_by_year, YearLt)

\* an input whose second record sorts before its first and that has a
\* record of an uncovered country; all three tables are there
C8_Witness ==
    /\ Aggregated
    /\ Len(df_crop_value) = 2
    /\ AreaYearLt(df_crop_value[2], df_crop_value[1])
    /\ \/ CoefEntries(df_crop_value[1].area_code) = {}
       \/ CoefEntries(df_crop_value[2].area_code) = {}
    /\ Len(df_gep_by_year_country) = 2

-----------------------------------------------------------------------------
(* Properties of the value loader *)

\* C9: no row returned by read_crop_values has an excluded crop (in gep_agr:
\* a crop outside the allow-list) or a country in the list the module passes
\* to isin, countries_to_drop.
C9_ExcludedRowsRemoved ==
    \A i \in DOMAIN df_crop_value :
        /\ module = ESTIMATE => df_crop_value[i].crop \notin aggregate_drop_list
        /\ module = GEP_AGR => df_crop_value[i].crop \in DEFAULT_CROP_ITEMS
        /\ df_crop_value[i].country \notin countries_to_drop(module)

\* a file with a row of "World", a row of the aggregate "Crops" and a row
\* that is kept, all of the unit the module reads
C9_Witness ==
    /\ pc = "values_read"
    /\ df_crop_value # <<>>
    /\ \E i, j \in DOMAIN values_file.rows :
           /\ values_file.rows[i].country = "World"
           /\ values_file.rows[i].Unit = UnitOf(module)
           /\ values_file.rows[j].crop = "Crops"
           /\ values_file.rows[j].Unit = UnitOf(module)

\* C10: every row of area_code 223 has the country "Turkey", in the table
\* read_crop_values returns and in the crop-level and country-year tables.
C10_TurkeyName ==
    /\ \A i \in DOMAIN df_crop_value :
           df_crop_value[i].area_code = 223 => df_crop_value[i].country = "Turkey"
    /\ \A i \in DOMAIN df_gep_by_country_year_crop :
           df_gep_by_country_year_crop[i].area_code = 223
               => df_gep_by_country_year_crop[i].country = "Turkey"
    /\ \A i \in DOMAIN df_gep_by_year_country :
           df_gep_by_year_country[i].area_code = 223
               => df_gep_by_year_country[i].country = "Turkey"

\* the file names area 223 "Turkiye"; the country-year table has its rows
C10_Witness ==
    /\ Grouped
    /\ \E i \in DOMAIN values_file.rows :
           /\ values_file.rows[i].area_code = Num(223)
           /\ values_file.rows[i].country = "Turkiye"
    /\ \E i \in DOMAIN df_gep_by_year_country : df_gep_by_year_country[i].area_code = 223
    /\ \E i \in DOMAIN df_gep_by_country_year_crop :
           df_gep_by_country_year_crop[i].area_code = 223

-----------------------------------------------------------------------------
(* the run and its loaders *)

\* C11: when read_crop_values or read_crop_coefs fails on its file, no join
\* or aggregation step starts and no output is written: the run is at its
\* start, between the two loads or ended, the three tables are empty and
\* there is no output file.
C11_NoOutputAfterFailedLoad ==
    (read_crop_values_raises(module, values_file) \/ read_crop_coefs_raises(coefs_file))
        => /\ pc \in {"start", "values_read", "aborted", "raised"}
           /\ outputs = <<>>
           /\ df_gep_by_country_year_crop = <<>>
           /\ df_gep_by_year_country = <<>>
           /\ df_gep_by_year = <<>>

\* run has read a non-empty value table, then read_crop_coefs failed and the
\* run ended
C11_Witness ==
    /\ module = ESTIMATE
    /\ pc = "aborted"
    /\ df_crop_value # <<>>
    /\ coefs_file.status = "unreadable"
    /\ outputs = <<>>

\* the long rows whose area_code is an integer, cast and renamed
parseable_rows(m, rows) ==
    Map(SelectSeq(cleaned_long(m, rows), LAMBDA r : ~r.area_code.na),
        LAMBDA r : rename_turkey(to_int(r)))

\* C12: on a readable value file read_crop_values does not raise, and it
\* returns the rows whose area_code is an integer, the others discarded.
C12_UnparseableRowsDiscarded ==
    (pc # "start" /\ values_file.status = "ok")
        => /\ df_crop_value = parseable_rows(module, values_file.rows)
           /\ pc \in {"aborted", "raised"} => coefs_file.status # "ok"

\* the leading year of the decade columns
LeadingYear ==
    [l \in Range(DecadeColumns) |->
        IF l = Label1960 THEN Num(1960) ELSE IF l = Label1962 THEN Num(1962) ELSE NA]

\* the (row, column) pairs of the coefficient file with a leading year and a
\* country code
dated_pairs(file) ==
    {p \in (DOMAIN file.rows) \X (DOMAIN file.columns) :
        ~LeadingYear[file.columns[p[2]]].na /\ ~file.rows[p[1]].FAO.na}

pair_entry(file, p) ==
    [FAO |-> file.rows[p[1]].FAO.v,
     year |-> LeadingYear[file.columns[p[2]]].v,
     rental_rate |-> file.rows[p[1]].rates[file.columns[p[2]]]]

CoefsRead == pc \in {"loaded", "merged", "crashed"} \/ Grouped

\* C13: the table read_crop_coefs returns has exactly one entry per (row,
\* decade column) pair whose label begins with a four-digit year and whose
\* FAO is present, with that year, the code and the rate of the cell: every
\* other pair is discarded and none of these is.
C13_CoefEntriesPerDatedPair ==
    CoefsRead =>
        /\ Len(df_crop_coefs) = Cardinality(dated_pairs(coefs_file))
        /\ \A e \in Range(df_crop_coefs)
                    \cup {pair_entry(coefs_file, p) : p \in dated_pairs(coefs_file)} :
               Count(df_crop_coefs, LAMBDA x : x = e)
                   = Cardinality({p \in dated_pairs(coefs_file) :
                                     pair_entry(coefs_file, p) = e})

\* the file has a row without FAO, the columns "Average" and "Y1970" and a
\* cell without rate under a decade column; the entry of that cell is kept
C13_Witness ==
    /\ pc = "loaded"
    /\ Len(coefs_file.rows) = 3
    /\ \E j \in DOMAIN coefs_file.columns : coefs_file.columns[j] = LabelY1970
    /\ Len(df_crop_coefs) = 4
    /\ \E i \in DOMAIN df_crop_coefs :
           df_crop_coefs[i].FAO = 223 /\ df_crop_coefs[i].rental_rate.na

\* the orders in which the loop can visit the codes of a set
Orders(S) == {o \in [1..Cardinality(S) -> S] : Range(o) = S}

SameRecords(a, b) ==
    /\ Len(a) = Len(b)
    /\ \A r \in Range(a) \cup Range(b) :
           Count(a, LAMBDA x : x = r) = Count(b, LAMBDA x : x = r)

\* C14: the table merge_crop_with_coefs returns has the records the loop
\* yields when it visits the countries in any other order, and the records
\* of each country are those the join yields from the rows and the
\* coefficient entries of that country alone.
C14_PartitionsIndependent ==
    pc = "merged" =>
        /\ \A o \in Orders(Range(group_codes(df_crop_value))) :
               \E out \in merge_results_in(df_crop_value, df_crop_coefs, o) :
                   SameRecords(out, df_gep_by_country_year_crop)
        /\ \A code \in Range(group_codes(df_crop_value)) :
               \E part \in merge_results_in(df_group(df_crop_value, code),
                                            lookup_sub(df_crop_coefs, code), <<code>>) :
                   SameRecords(part, df_group(df_gep_by_country_year_crop, code))

\* two countries, the first with coefficient entries, the second without
C14_Witness ==
    /\ pc = "merged"
    /\ Len(group_codes(df_crop_value)) = 2
    /\ lookup_sub(df_crop_coefs, 1) # <<>>
    /\ lookup_sub(df_crop_coefs, 2) = <<>>
    /\ \E i \in DOMAIN df_gep_by_country_year_crop :
           /\ df_gep_by_country_year_crop[i].area_code = 1
           /\ ~df_gep_by_country_year_crop[i].rental_rate.na

\* C15: the table gep_agr.read_crop_values returns has no row of a country
\* written in its countries_to_drop list, "Czechoslovakia" and "Low Income
\* Food Deficit Countries" among them.
C15_WrittenCountriesExcluded ==
    module = GEP_AGR =>
        \A i \in DOMAIN df_crop_value :
            df_crop_value[i].country \notin countries_written_gep_agr

====
